---- MODULE Spec2Model ----
(***************************************************************************)
(* Spotify-AI-Assistant: the OpenAPI-to-tool compiler of server.py, the    *)
(* bounded tool-calling agent loop of client.py, and the tool host with    *)
(* the token handling of utils/auth.py.                                    *)
(*                                                                         *)
(* Text that the code takes apart character by character (operation names, *)
(* path templates, URLs) is a sequence of one-character strings; text that *)
(* the code only builds or passes along is a TLA+ string.                  *)
(***************************************************************************)
EXTENDS Integers, Sequences, FiniteSets, TLC

VARIABLES
    rawIn,      \* sanitize_name: the raw name passed in
    sanOut,     \* sanitize_name: [done |-> BOOLEAN, name |-> the returned name]
    doc,        \* server.py: the (path, method key, operation) entries of spec["paths"]
    idx,        \* server.py: the number of entries the registration loop has consumed
    build,      \* server.py: "running", "done" (mcp.run() serves) or "failed" (import raised)
    registry,   \* server.py: the tools of mcp, tool name -> compiled tool (with the
                \* entry it was made from and the raw name it was given)
    regLog,     \* history: the names passed to mcp.add_tool, in call order
    last,       \* history: the last call of a compiled tool function and what it gave
    max_iterations, \* client.py: self.max_iterations
    session,    \* client.py: self.session is set
    tool_defs,  \* client.py: self.tool_defs, the names of the cached tools
    memory,     \* client.py: self.memory
    pc,         \* client.py: where main / chat_loop / run_agent stands
    iteration,  \* client.py: the loop variable of run_agent
    call,       \* client.py: func_name and args of the tool call in flight (and the
                \* tool calls of the response it was taken from)
    user_query, \* client.py: the user_query of the current run_agent invocation
    out,        \* client.py: how the last run_agent ended, and its return value
    queries,    \* history: model queries of the current run_agent invocation
    dispatches, \* history: call_tool calls of the current run_agent invocation
    runBase,    \* history: self.memory when the current run_agent was entered
    log,        \* history: the tool calls of the current run_agent that returned
    turns,      \* history: run_agent invocations of the session
    total,      \* history: call_tool calls of the session
    query,      \* client.py: the query chat_loop has read last (stripped)
    sent,       \* history: the messages of the last model query of the current run_agent
    host,       \* tool host: "starting", "saving" (get_oauth_session writes the first
                \* token), "serving" (mcp.run() serves) or "failed"
    task,       \* tool host: where each tool invocation stands
    running,    \* tool host: the invocation that holds the event loop, or 0
    token,      \* auth.py: the token of the oauth session: "none", "fresh" or "expired"
    writers     \* auth.py: the handles of TOKEN_FILE that are open for writing

nameVars == <<rawIn, sanOut>>
hostVars == <<host, task, running, token, writers>>
serverVars == <<doc, idx, build, registry, regLog, last>>
agentVars == <<max_iterations, session, tool_defs, memory, pc, iteration, call,
               user_query, out, queries, dispatches, runBase, log, turns, total, query, sent>>
vars == <<rawIn, sanOut, doc, idx, build, registry, regLog, last,
          max_iterations, session, tool_defs, memory, pc, iteration, call,
          user_query, out, queries, dispatches, runBase, log, turns, total, query, sent,
          host, task, running, token, writers>>

----------------------------------------------------------------------------
(* Bounds of the model *)

MaxNameLen == 3

\* the largest max_iterations a client is constructed with
MaxIter == 3

\* call_tool calls of one session
MaxDispatches == 3

\* run_agent invocations of one session
MaxTurns == 2

----------------------------------------------------------------------------
(* Characters *)

Digits == {"0", "1", "2", "3", "4", "5", "6", "7", "8", "9"}

Lower == {"a", "b", "c", "d", "e", "f", "g", "h", "i", "j", "k", "l", "m",
          "n", "o", "p", "q", "r", "s", "t", "u", "v", "w", "x", "y", "z"}

Upper == {"A", "B", "C", "D", "E", "F", "G", "H", "I", "J", "K", "L", "M",
          "N", "O", "P", "Q", "R", "S", "T", "U", "V", "W", "X", "Y", "Z"}

\* the complement of the character class [^0-9a-zA-Z_]
WordChars == Digits \cup Lower \cup Upper \cup {"_"}

\* the characters the bounded raw names are drawn from
NameAlphabet == {"a", "Z", "7", "_", "/", "{"}

RECURSIVE Join(_)
Join(s) == IF s = <<>> THEN "" ELSE Head(s) \o Join(Tail(s))

RECURSIVE SeqsUpTo(_, _)
SeqsUpTo(S, n) ==
    IF n = 0 THEN {<<>>}
    ELSE LET shorter == SeqsUpTo(S, n - 1)
         IN  shorter \cup {Append(s, c) : s \in shorter, c \in S}

----------------------------------------------------------------------------
(* server.py: sanitize_name *)

\* a substitution that replaces a whole run of non-word characters by one "_"
RECURSIVE re_sub_collapsing(_)
re_sub_collapsing(name) ==
    IF name = <<>> THEN <<>>
    ELSE IF Head(name) \in WordChars
         THEN <<Head(name)>> \o re_sub_collapsing(Tail(name))
         ELSE IF Len(name) > 1 /\ name[2] \notin WordChars
              THEN re_sub_collapsing(Tail(name))
              ELSE <<"_">> \o re_sub_collapsing(Tail(name))

\* re.sub(r"[^0-9a-zA-Z_]", "_", name)
re_sub_nonword(name) ==
    [i \in 1..Len(name) |-> IF name[i] \in WordChars THEN name[i] ELSE "_"]

\* re.match(r"^\d", sanitized), on a string re_sub_nonword has returned
starts_with_digit(sanitized) ==
    Len(sanitized) > 0 /\ sanitized[1] \in Digits

sanitize_name(name) ==
    LET sanitized == re_sub_nonword(name)
    IN  IF starts_with_digit(sanitized)
        THEN <<"o", "p", "_">> \o sanitized
        ELSE sanitized

----------------------------------------------------------------------------
(* Python values that cross the tool boundary: k names the type, v holds   *)
(* the value (a dict is the sequence of its <<key, value>> items).         *)

PyStr(s) == [k |-> "str", v |-> s]
PyList(items) == [k |-> "list", v |-> items]
PyDict(items) == [k |-> "dict", v |-> items]

----------------------------------------------------------------------------
(* str methods the server applies to names and paths *)

LowerLetters == <<"a", "b", "c", "d", "e", "f", "g", "h", "i", "j", "k", "l", "m",
                  "n", "o", "p", "q", "r", "s", "t", "u", "v", "w", "x", "y", "z">>

UpperLetters == <<"A", "B", "C", "D", "E", "F", "G", "H", "I", "J", "K", "L", "M",
                  "N", "O", "P", "Q", "R", "S", "T", "U", "V", "W", "X", "Y", "Z">>

\* str.lower()
str_lower(s) ==
    [i \in 1..Len(s) |->
        IF s[i] \in Upper
        THEN LowerLetters[CHOOSE j \in 1..26 : UpperLetters[j] = s[i]]
        ELSE s[i]]

\* str.upper()
str_upper(s) ==
    [i \in 1..Len(s) |->
        IF s[i] \in Lower
        THEN UpperLetters[CHOOSE j \in 1..26 : LowerLetters[j] = s[i]]
        ELSE s[i]]

\* str.lstrip(chars)
RECURSIVE str_lstrip(_, _)
str_lstrip(s, chars) ==
    IF s # <<>> /\ Head(s) \in chars THEN str_lstrip(Tail(s), chars) ELSE s

\* str.rstrip(chars)
RECURSIVE str_rstrip(_, _)
str_rstrip(s, chars) ==
    IF s # <<>> /\ s[Len(s)] \in chars
    THEN str_rstrip(SubSeq(s, 1, Len(s) - 1), chars)
    ELSE s

\* str.strip(chars)
str_strip(s, chars) == str_rstrip(str_lstrip(s, chars), chars)

\* str.replace(old, new) for one-character old and new
str_replace(s, old, new) ==
    [i \in 1..Len(s) |-> IF s[i] = old THEN new ELSE s[i]]

\* str.split(sep) for a one-character sep: the pieces, as strings
RECURSIVE str_split(_, _, _)
str_split(s, sep, piece) ==
    IF s = <<>> THEN <<Join(piece)>>
    ELSE IF Head(s) = sep
         THEN <<Join(piece)>> \o str_split(Tail(s), sep, <<>>)
         ELSE str_split(Tail(s), sep, Append(piece, Head(s)))

----------------------------------------------------------------------------
(* server.py: the loaded document *)

\* spec["servers"][0]["url"]
ServerUrl == <<"h", "t", "t", "p", "s", ":", "/", "/", "a", "p", "i", "/">>

\* base_url = spec["servers"][0]["url"].rstrip("/")
base_url == str_rstrip(ServerUrl, {"/"})

\* spec["components"]["parameters"], the part of the document $refs point into
SpecTree ==
    [components |->
        [parameters |->
            [PathI  |-> [name |-> "i", in |-> "path"],
             QueryQ |-> [name |-> "q", in |-> "query"],
             HeaderH |-> [name |-> "h", in |-> "header"]]]]

RefPathI == <<"#", "/", "c", "o", "m", "p", "o", "n", "e", "n", "t", "s", "/", "p", "a", "r", "a", "m", "e", "t", "e", "r", "s", "/", "P", "a", "t", "h", "I">>
RefQueryQ == <<"#", "/", "c", "o", "m", "p", "o", "n", "e", "n", "t", "s", "/", "p", "a", "r", "a", "m", "e", "t", "e", "r", "s", "/", "Q", "u", "e", "r", "y", "Q">>
RefHeaderH == <<"#", "/", "c", "o", "m", "p", "o", "n", "e", "n", "t", "s", "/", "p", "a", "r", "a", "m", "e", "t", "e", "r", "s", "/", "H", "e", "a", "d", "e", "r", "H">>
RefMissing == <<"#", "/", "c", "o", "m", "p", "o", "n", "e", "n", "t", "s", "/", "p", "a", "r", "a", "m", "e", "t", "e", "r", "s", "/", "M", "i", "s", "s", "i", "n", "g">>

\* a parameter written inline, and one written as a JSON reference
Inline(n, loc) == [ref |-> <<>>, name |-> n, in |-> loc]
Ref(r) == [ref |-> r, name |-> "", in |-> ""]

\* the walk of resolve_param: obj = obj[key] for each key; KeyError when absent
RECURSIVE walk(_, _)
walk(obj, parts) ==
    IF parts = <<>> THEN [ok |-> TRUE, obj |-> obj]
    ELSE IF Head(parts) \in DOMAIN obj
         THEN walk(obj[Head(parts)], Tail(parts))
         ELSE [ok |-> FALSE, obj |-> <<>>]

resolve_param(param) ==
    IF param.ref # <<>>
    THEN walk(SpecTree, str_split(str_lstrip(param.ref, {"#", "/"}), "/", <<>>))
    ELSE [ok |-> TRUE, obj |-> [name |-> param.name, in |-> param.in]]

----------------------------------------------------------------------------
(* server.py: make_tool_function, the function it compiles *)

\* Allowed HTTP methods
HTTP_METHODS == {<<"g", "e", "t">>, <<"p", "u", "t">>, <<"p", "o", "s", "t">>, <<"d", "e", "l", "e", "t", "e">>,
                 <<"o", "p", "t", "i", "o", "n", "s">>, <<"h", "e", "a", "d">>, <<"p", "a", "t", "c", "h">>, <<"t", "r", "a", "c", "e">>}

\* [p["name"] for p in param_objs if p["in"] == loc]
names_in(param_objs, loc) ==
    LET keep(p) == p.in = loc
        sel == SelectSeq(param_objs, keep)
    IN  [i \in 1..Len(sel) |-> sel[i].name]

Range(s) == {s[i] : i \in DOMAIN s}

\* what the generated source is built from: the plan of one compiled tool
make_tool_function(tool_name, path, method, param_objs, has_body) ==
    LET path_params == names_in(param_objs, "path")
        query_params == names_in(param_objs, "query")
    IN  [tool_name    |-> tool_name,
         path         |-> path,
         method       |-> method,
         path_params  |-> path_params,
         query_params |-> query_params,
         has_body     |-> has_body,
         all_args     |-> path_params \o query_params
                          \o (IF has_body THEN <<"body">> ELSE <<>>)]

\* names the generated function finds outside its arguments: the builtins of
\* the namespace it was exec'ed in, with the text their formatting gives
BuiltinNames == {"id"}
BuiltinText == <<"<", "b", "u", "i", "l", "t", "-", "i", "n", " ", "f", "u", "n", "c", "t", "i", "o", "n", " ", "i", "d", ">">>

\* the position of the first "}" of a template that starts with "{"
closing(tpl) == CHOOSE j \in 1..Len(tpl) :
                    tpl[j] = "}" /\ \A h \in 1..(j - 1) : tpl[h] # "}"

\* a URL line that is a plain string: the template goes out as written
plain_string(tpl, args) == [ok |-> TRUE, text |-> tpl]

\* url = f"{base_url}{path}" as it stands in the generated source: an
\* f-string whose text is base_url followed by the path template, so each
\* {name} of the template is an expression evaluated when the function runs.
\* ok = FALSE is the NameError of a name that is no argument and no builtin.
RECURSIVE f_string(_, _)
f_string(tpl, args) ==
    IF tpl = <<>> THEN [ok |-> TRUE, text |-> <<>>]
    ELSE IF Head(tpl) = "{"
         THEN LET j == closing(tpl)
                  name == Join(SubSeq(tpl, 2, j - 1))
                  rest == f_string(SubSeq(tpl, j + 1, Len(tpl)), args)
              IN  IF name \in DOMAIN args
                  THEN [ok |-> rest.ok, text |-> args[name] \o rest.text]
                  ELSE IF name \in BuiltinNames
                       THEN [ok |-> rest.ok, text |-> BuiltinText \o rest.text]
                       ELSE [ok |-> FALSE, text |-> <<>>]
         ELSE LET rest == f_string(Tail(tpl), args)
              IN  [ok |-> rest.ok, text |-> <<Head(tpl)>> \o rest.text]

\* the url line of the generated function
url_line(fn, args) == f_string(base_url \o fn.path, args)

\* oauth.request(method, url, params={...}, json=body): the request it is given
request_of(fn, url, args) ==
    [method     |-> fn.method,
     url        |-> url,
     has_params |-> fn.query_params # <<>>,
     params     |-> [p \in Range(fn.query_params) |-> args[p]],
     has_json   |-> fn.has_body,
     json       |-> IF fn.has_body THEN args["body"] ELSE <<>>]

NoRequest ==
    [method |-> <<>>, url |-> <<>>, has_params |-> FALSE, params |-> <<>>,
     has_json |-> FALSE, json |-> <<>>]

----------------------------------------------------------------------------
(* The authorized requester (requests / requests_oauthlib), as the         *)
(* generated function sees it                                              *)

Response(status, reason, text) ==
    [status |-> status, reason |-> reason, text |-> text]

NoResponse == Response(0, "", "")

\* an exception: e.response is present iff has_response
Exc(type, msg, has_response, response) ==
    [type |-> type, msg |-> msg, has_response |-> has_response,
     response |-> response]

NoExc == Exc("", "", FALSE, NoResponse)

\* resp.raise_for_status() raises HTTPError for 4xx and 5xx
raise_for_status_raises(resp) == resp.status >= 400 /\ resp.status < 600

\* str() of the HTTPError that raise_for_status raises
http_error_msg(resp, url) ==
    ToString(resp.status)
        \o (IF resp.status < 500 THEN " Client Error: " ELSE " Server Error: ")
        \o resp.reason \o " for url: " \o Join(url)

\* bool(response): requests.Response.__bool__ returns response.ok, which is
\* False exactly when raise_for_status would raise
response_bool(resp) == ~raise_for_status_raises(resp)

\* resp.json(): the decoded body, or ok = FALSE for a JSONDecodeError
resp_json(text) ==
    CASE text = "{\"a\": \"b\"}" ->
             [ok |-> TRUE, value |-> PyDict(<< <<"a", PyStr("b")>> >>)]
      [] text = "{\"error\": \"not found\"}" ->
             [ok |-> TRUE, value |-> PyDict(<< <<"error", PyStr("not found")>> >>)]
      [] OTHER -> [ok |-> FALSE, value |-> PyList(<<>>)]

JSONDecodeError == Exc("JSONDecodeError", "Expecting value: line 1 column 1 (char 0)",
                       FALSE, NoResponse)

\* ["Sucessfully executed"]
SuccessContent == PyList(<<PyStr("Sucessfully executed")>>)

\* [ { 'type': 'text', 'text': error_text } ]
ErrorContent(error_text) ==
    PyList(<<PyDict(<< <<"type", PyStr("text")>>, <<"text", PyStr(error_text)>> >>)>>)

Envelope(isError, content) == [isError |-> isError, content |-> content]

\* the except branch of the generated function
\*   status = getattr(e, 'response', None) and e.response.status_code
\*   body   = getattr(e, 'response', None) and e.response.text
\*   error_text = f"HTTP {status}: {body}" if status else str(e)
\* "x and y" is x when x is falsy: status is the status code only when
\* e.response is present and truthy, and the test "if status" then asks
\* whether that code is nonzero
except_branch(e) ==
    LET status_is_code == e.has_response /\ response_bool(e.response)
        status_truthy == status_is_code /\ e.response.status # 0
        error_text == IF status_truthy
                      THEN "HTTP " \o ToString(e.response.status) \o ": "
                               \o e.response.text
                      ELSE e.msg
    IN  Envelope(TRUE, ErrorContent(error_text))

\* a body that lets the failure of the decoding escape the function
try_block_unguarded_json(outcome, request) ==
    IF outcome.raises THEN [raised |-> FALSE, result |-> except_branch(outcome.exc)]
    ELSE IF raise_for_status_raises(outcome.resp)
    THEN [raised |-> FALSE, result |-> except_branch(
              Exc("HTTPError", http_error_msg(outcome.resp, request.url),
                  TRUE, outcome.resp))]
    ELSE IF outcome.resp.status = 201 \/ outcome.resp.status = 204
            \/ outcome.resp.text = ""
    THEN [raised |-> FALSE, result |-> Envelope(FALSE, SuccessContent)]
    ELSE IF resp_json(outcome.resp.text).ok
    THEN [raised |-> FALSE,
          result |-> Envelope(FALSE, resp_json(outcome.resp.text).value)]
    ELSE [raised |-> TRUE, result |-> Envelope(TRUE, PyList(<<>>))]

\* the try block of the generated function and the except that guards it:
\* request, raise_for_status, the empty-body / 204 / 201 test, resp.json()
try_block(outcome, request) ==
    IF outcome.raises THEN [raised |-> FALSE, result |-> except_branch(outcome.exc)]
    ELSE IF raise_for_status_raises(outcome.resp)
    THEN [raised |-> FALSE, result |-> except_branch(
              Exc("HTTPError", http_error_msg(outcome.resp, request.url),
                  TRUE, outcome.resp))]
    ELSE IF outcome.resp.status = 201 \/ outcome.resp.status = 204
            \/ outcome.resp.text = ""
    THEN [raised |-> FALSE, result |-> Envelope(FALSE, SuccessContent)]
    ELSE IF resp_json(outcome.resp.text).ok
    THEN [raised |-> FALSE,
          result |-> Envelope(FALSE, resp_json(outcome.resp.text).value)]
    ELSE [raised |-> FALSE, result |-> except_branch(JSONDecodeError)]

\* one call of a compiled tool function: the url line stands before the try,
\* so its NameError reaches the caller; everything after it is guarded
tool_function(fn, args, outcome) ==
    LET u == url_line(fn, args)
    IN  IF ~u.ok
        THEN [raised |-> TRUE, exc |-> "NameError", request |-> NoRequest,
              result |-> Envelope(TRUE, PyList(<<>>))]
        ELSE LET request == request_of(fn, u.text, args)
                 r == try_block(outcome, request)
             IN  [raised |-> r.raised,
                  exc |-> IF r.raised THEN "JSONDecodeError" ELSE "",
                  request |-> request, result |-> r.result]

----------------------------------------------------------------------------
(* server.py: the documents the model is run on *)

MaxOps == 2

\* one (path, method key, value) of spec["paths"]; isDict is
\* isinstance(op, dict); operationId is <<>> when absent (or empty: the
\* code's "or" treats the two alike)
Entry(path, key, isDict, operationId, parameters, requestBody) ==
    [path |-> path, key |-> key, isDict |-> isDict, operationId |-> operationId,
     parameters |-> parameters, requestBody |-> requestBody]

\* "/v1/tracks/{id}"
TracksPath == <<"/", "v", "1", "/", "t", "r", "a", "c", "k", "s", "/", "{", "i", "d", "}">>

OpPool ==
    { Entry(<<"/", "m", "e">>, <<"g", "e", "t">>, TRUE, <<"a", "-", "b">>, <<Ref(RefQueryQ)>>, FALSE),
      Entry(<<"/", "t", "/", "{", "i", "}">>, <<"g", "e", "t">>, TRUE, <<>>, <<Inline("i", "path")>>, FALSE),
      Entry(<<"/", "t", "/", "{", "i", "}">>, <<"P", "U", "T">>, TRUE, <<"a", "_", "b">>,
            <<Ref(RefPathI), Ref(RefHeaderH)>>, TRUE),
      Entry(<<"/", "x", "/", "{", "n", "}">>, <<"g", "e", "t">>, TRUE, <<"7", "x">>, <<>>, FALSE),
      Entry(<<"/", "x", "/", "{", "n", "}">>, <<"p", "a", "r", "a", "m", "e", "t", "e", "r", "s">>, FALSE, <<>>, <<>>, FALSE),
      Entry(<<"/", "r">>, <<"p", "o", "s", "t">>, TRUE, <<>>, <<Ref(RefMissing)>>, FALSE),
      Entry(<<"/", "b", "/", "{", "i", "d", "}">>, <<"D", "E", "L", "E", "T", "E">>, TRUE, <<>>, <<>>, FALSE),
      Entry(TracksPath, <<"g", "e", "t">>, TRUE, <<>>, <<>>, FALSE) }

\* spec["paths"] is a mapping of mappings: no (path, key) occurs twice
Docs ==
    { d \in SeqsUpTo(OpPool, MaxOps) :
        \A i, j \in DOMAIN d :
            (d[i].path = d[j].path /\ d[i].key = d[j].key) => i = j }

ArgValues == {<<"4">>, <<"a", "b">>}

Bodies == {"", "{\"a\": \"b\"}", "{\"error\": \"not found\"}", "oops"}

Statuses == {200, 201, 204, 404}

Reason(status) ==
    CASE status = 200 -> "OK"
      [] status = 201 -> "Created"
      [] status = 204 -> "No Content"
      [] status = 302 -> "Found"
      [] status = 404 -> "Not Found"
      [] OTHER        -> "Internal Server Error"

Returned(resp) == [raises |-> FALSE, resp |-> resp, exc |-> NoExc]
Raised(exc) == [raises |-> TRUE, resp |-> NoResponse, exc |-> exc]

\* what oauth.request can do: return a response, or raise with no response
\* (the connection failed) or with one (too many redirects)
Outcomes ==
    { Returned(Response(s, Reason(s), b)) : s \in Statuses, b \in Bodies }
    \cup { Raised(Exc("ConnectionError", "Connection aborted.", FALSE, NoResponse)),
           Raised(Exc("TooManyRedirects", "Exceeded 30 redirects.", TRUE,
                      Response(302, Reason(302), "moved"))) }

----------------------------------------------------------------------------
(* server.py: the registration loop *)

\* a raw name made of the lowercased method and the path with every
\* character outside [0-9A-Za-z_] already turned into "_"
raw_name_lowered_and_cleaned(e) ==
    IF e.operationId # <<>> THEN e.operationId
    ELSE str_lower(e.key) \o <<"_">>
             \o re_sub_nonword(str_replace(str_strip(e.path, {"/"}), "/", "_"))

\* raw_name = op.get("operationId") or f"{method}_{path.strip('/').replace('/', '_')}"
raw_name(e) ==
    IF e.operationId # <<>> THEN e.operationId
    ELSE e.key \o <<"_">> \o str_replace(str_strip(e.path, {"/"}), "/", "_")

\* the resolved parameters of an operation, in declared order
resolved(e) == [i \in DOMAIN e.parameters |-> resolve_param(e.parameters[i])]

\* param_objs: the resolved parameters located in the path or the query
param_objs(e) ==
    LET objs == [i \in DOMAIN e.parameters |-> resolved(e)[i].obj]
        keep(o) == o.in \in {"path", "query"}
    IN  SelectSeq(objs, keep)

\* mcp.add_tool(fn, name=tool_name, ...): a name already present is replaced
add_tool(reg, name, tool) ==
    [n \in DOMAIN reg \cup {name} |-> IF n = name THEN tool ELSE reg[n]]

NoCall ==
    [called |-> FALSE, name |-> <<>>, src |-> 0, args |-> <<>>,
     outcome |-> Raised(NoExc),
     call |-> [raised |-> FALSE, exc |-> "", request |-> NoRequest,
               result |-> Envelope(FALSE, PyList(<<>>))]]

ServerInit ==
    /\ doc \in Docs
    /\ idx = 0
    /\ build = "loading"
    /\ registry = <<>>
    /\ regLog = <<>>
    /\ last = NoCall

\* lines 21-32: the document loads and validates, the session is prepared
LoadSpec ==
    /\ build = "loading"
    /\ build' = "running"
    /\ UNCHANGED <<doc, idx, registry, regLog, last>>
    /\ UNCHANGED <<nameVars, agentVars, hostVars>>

\* yaml.safe_load or validate_spec raises: the import of the module fails
LoadFails ==
    /\ build = "loading"
    /\ build' = "failed"
    /\ UNCHANGED <<doc, idx, registry, regLog, last>>
    /\ UNCHANGED <<nameVars, agentVars, hostVars>>

\* line 127: a key that is no HTTP method, or a value that is no dict
SkipEntry ==
    /\ build = "running"
    /\ idx < Len(doc)
    /\ LET e == doc[idx + 1]
       IN  str_lower(e.key) \notin HTTP_METHODS \/ ~e.isDict
    /\ idx' = idx + 1
    /\ UNCHANGED <<doc, build, registry, regLog, last>>
    /\ UNCHANGED <<nameVars, agentVars, hostVars>>

\* lines 135-136: a $ref that does not resolve raises out of the loop
RefFailure ==
    /\ build = "running"
    /\ idx < Len(doc)
    /\ LET e == doc[idx + 1]
       IN  /\ str_lower(e.key) \in HTTP_METHODS /\ e.isDict
           /\ \E i \in DOMAIN e.parameters : ~resolved(e)[i].ok
    /\ build' = "failed"
    /\ UNCHANGED <<doc, idx, registry, regLog, last>>
    /\ UNCHANGED <<nameVars, agentVars, hostVars>>

\* lines 130-142: one operation is named, compiled and registered
RegisterTool ==
    /\ build = "running"
    /\ idx < Len(doc)
    /\ LET e == doc[idx + 1]
           tool_name == sanitize_name(raw_name(e))
           fn == make_tool_function(tool_name, e.path, str_upper(e.key),
                                    param_objs(e), e.requestBody)
       IN  /\ str_lower(e.key) \in HTTP_METHODS /\ e.isDict
           /\ \A i \in DOMAIN e.parameters : resolved(e)[i].ok
           /\ registry' = add_tool(registry, tool_name,
                                   [fn |-> fn, src |-> idx + 1, raw |-> raw_name(e)])
           /\ regLog' = Append(regLog, tool_name)
    /\ idx' = idx + 1
    /\ UNCHANGED <<doc, build, last>>
    /\ UNCHANGED <<nameVars, agentVars, hostVars>>

\* lines 145-147: the loop is over and mcp.run() starts serving
FinishBuild ==
    /\ build = "running"
    /\ idx = Len(doc)
    /\ build' = "done"
    /\ UNCHANGED <<doc, idx, registry, regLog, last>>
    /\ UNCHANGED <<nameVars, agentVars, hostVars>>

\* the tool host calls a registered function with a value for each argument
Invoke ==
    /\ build = "done"
    /\ \E name \in DOMAIN registry :
         LET fn == registry[name].fn
         IN  \E args \in [Range(fn.all_args) -> ArgValues], outcome \in Outcomes :
               last' = [called |-> TRUE, name |-> name, src |-> registry[name].src,
                        args |-> args, outcome |-> outcome,
                        call |-> tool_function(fn, args, outcome)]
    /\ UNCHANGED <<doc, idx, build, registry, regLog>>
    /\ UNCHANGED <<nameVars, agentVars, hostVars>>

ServerNext ==
    \/ LoadSpec
    \/ LoadFails
    \/ SkipEntry
    \/ RefFailure
    \/ RegisterTool
    \/ FinishBuild
    \/ Invoke

----------------------------------------------------------------------------
(* client.py: SpotifyAgentClient *)

\* the system prompt of connect
SystemPrompt == "You are a reasoning agent with access to Spotify tools."

\* the return value of an exhausted run
Apology == "I'm sorry, I couldn't complete the request."

\* the tools the server lists at connect time
Catalog == {"get_current_playback"}

\* the tool names the model may ask for
ToolNames == Catalog \cup {"no_such_tool"}

\* call.arguments of a tool call: None, or a string
NoArguments == [present |-> FALSE, text |-> ""]
Arguments(text) == [present |-> TRUE, text |-> text]

ArgumentsSet ==
    {NoArguments, Arguments(""), Arguments("{\"q\":\"x\"}"), Arguments("{bad")}

\* a parser that takes any text it cannot decode for the empty object
json_loads_lenient(text) ==
    CASE text = "{\"q\":\"x\"}" ->
             [ok |-> TRUE, value |-> PyDict(<< <<"q", PyStr("x")>> >>)]
      [] OTHER -> [ok |-> TRUE, value |-> PyDict(<<>>)]

\* json.loads: the value, or ok = FALSE for a JSONDecodeError
json_loads(text) ==
    CASE text = "{}" -> [ok |-> TRUE, value |-> PyDict(<<>>)]
      [] text = "{\"q\":\"x\"}" ->
             [ok |-> TRUE, value |-> PyDict(<< <<"q", PyStr("x")>> >>)]
      [] OTHER -> [ok |-> FALSE, value |-> PyDict(<<>>)]

\* json.dumps, with its default separators ", " and ": "
json_dumps(value) ==
    IF value = PyDict(<<>>) THEN "{}" ELSE "{\"q\": \"x\"}"

\* call.arguments or "{}"
arguments_or_empty(arguments) ==
    IF arguments.present /\ arguments.text # "" THEN arguments.text ELSE "{}"

\* the line args = json.loads(call.arguments or "{}")
parse_arguments(arguments) == json_loads(arguments_or_empty(arguments))

ToolCallOf(name, arguments) == [name |-> name, arguments |-> arguments]

\* a second tool call of the same response; it asks for a tool that no
\* response asks for first, so that a trace of it can only come from it
ExtraCall == ToolCallOf("pause_playback", NoArguments)

\* the last tool call of the response
dispatched_call_last(msg) == msg.tool_calls[Len(msg.tool_calls)]

\* call = msg.tool_calls[0].function
dispatched_call(msg) == msg.tool_calls[1]

\* msg.content: None, or a string
NoContent == [present |-> FALSE, text |-> ""]
Content(text) == [present |-> TRUE, text |-> text]

ContentSet == {NoContent, Content(""), Content("Currently playing X.")}

\* response.choices[0].message: a tool-call request or free-form content
FirstCalls ==
    { ToolCallOf(n, a) : n \in Catalog, a \in ArgumentsSet }
    \cup { ToolCallOf(n, a) : n \in ToolNames \ Catalog,
                              a \in {NoArguments, Arguments("{bad")} }

\* the first calls that a response carries together with a second call
PairedCalls == {ToolCallOf("get_current_playback", Arguments("{\"q\":\"x\"}"))}

ModelResponses ==
    { [tool_calls |-> <<c>>, content |-> NoContent] : c \in FirstCalls }
    \cup { [tool_calls |-> <<c, ExtraCall>>, content |-> NoContent] : c \in PairedCalls }
    \cup { [tool_calls |-> <<>>, content |-> c] : c \in ContentSet }

\* what session.call_tool can return: for a tool of the catalog the content
\* of a success or of an error envelope; for any other name an error result
CallResults(name) ==
    IF name \in Catalog
    THEN { [isError |-> FALSE, content |-> "track X"],
           [isError |-> TRUE,  content |-> "HTTP 404: not found"] }
    ELSE { [isError |-> TRUE, content |-> "Unknown tool"] }

\* what record_voice can return
Inputs == {<<>>, <<" ">>, <<"Q", "u", "i", "t", " ">>, <<"p", "l", "a", "y">>}

\* tool_calls: the tool calls of the response the call in flight came with
NoPending == [name |-> "", args |-> PyDict(<<>>), tool_calls |-> <<>>]

\* kind: "returned" or "raised"; tool: the tool whose call raised
NoOutcome == [kind |-> "none", text |-> "", tool |-> ""]

\* the assistant entry alone: the observation is not recorded
call_entries_without_observation(func_name, args, result) ==
    << [role |-> "assistant", name |-> func_name, content |-> json_dumps(args)] >>

\* the two entries, the observation first
call_entries_observation_first(func_name, args, result) ==
    << [role |-> "function", name |-> func_name, content |-> result.content],
       [role |-> "assistant", name |-> func_name, content |-> json_dumps(args)] >>

\* the two entries that record a tool call and its observation
call_entries(func_name, args, result) ==
    << [role |-> "assistant", name |-> func_name, content |-> json_dumps(args)],
       [role |-> "function", name |-> func_name, content |-> result.content] >>

\* a loop that makes one iteration too many
loop_continues_once_more == iteration <= max_iterations

\* for iteration in range(self.max_iterations)
loop_continues == iteration < max_iterations

AgentInit ==
    /\ max_iterations \in 0..MaxIter
    /\ session = FALSE
    /\ tool_defs = {}
    /\ memory = <<>>
    /\ pc = "main"
    /\ iteration = 0
    /\ call = NoPending
    /\ out = NoOutcome
    /\ queries = 0
    /\ dispatches = 0
    /\ runBase = <<>>
    /\ log = <<>>
    /\ user_query = ""
    /\ turns = 0
    /\ total = 0
    /\ query = <<>>
    /\ sent = <<>>

\* connect: the server is spawned, its tools are cached and the system
\* prompt becomes the first entry of the memory
Connect ==
    /\ pc = "main"
    /\ session' = TRUE
    /\ tool_defs' = Catalog
    /\ memory' = Append(memory, [role |-> "system", content |-> SystemPrompt])
    /\ pc' = "input"
    /\ UNCHANGED <<max_iterations, iteration, call, out, queries, dispatches,
                   runBase, log, user_query, turns, total, query, sent>>
    /\ UNCHANGED <<nameVars, serverVars, hostVars>>

\* connect raises (the server does not start, initialize or list_tools
\* fails): main closes the client without entering chat_loop
ConnectFails ==
    /\ pc = "main"
    /\ session' \in BOOLEAN
    /\ pc' = "failed"
    /\ UNCHANGED <<max_iterations, tool_defs, memory, iteration, call, out,
                   queries, dispatches, runBase, log, user_query, turns, total, query, sent>>
    /\ UNCHANGED <<nameVars, serverVars, hostVars>>

\* chat_loop: query = self.record_voice().strip()
stripped(input) == str_strip(input, {" "})

\* chat_loop: not query or query.lower() == "quit"
is_exit(q) == q = <<>> \/ str_lower(q) = <<"q", "u", "i", "t">>

\* chat_loop breaks and main closes the client
Quit ==
    /\ pc = "input"
    /\ \E input \in Inputs :
         /\ is_exit(stripped(input))
         /\ query' = stripped(input)
    /\ pc' = "closed"
    /\ UNCHANGED <<max_iterations, session, tool_defs, memory, iteration, call,
                   out, queries, dispatches, runBase, log, user_query, turns, total, sent>>
    /\ UNCHANGED <<nameVars, serverVars, hostVars>>

\* chat_loop calls run_agent, which appends the user query and enters its loop
StartRun ==
    /\ pc = "input"
    /\ turns < MaxTurns
    /\ session
    /\ \E input \in Inputs :
         /\ ~is_exit(stripped(input))
         /\ query' = stripped(input)
         /\ user_query' = Join(stripped(input))
         /\ memory' = Append(memory, [role |-> "user",
                                      content |-> Join(stripped(input))])
    /\ runBase' = memory
    /\ log' = <<>>
    /\ iteration' = 0
    /\ queries' = 0
    /\ dispatches' = 0
    /\ out' = NoOutcome
    /\ turns' = turns + 1
    /\ call' = NoPending
    /\ sent' = <<>>
    /\ pc' = "think"
    /\ UNCHANGED <<max_iterations, session, tool_defs, total>>
    /\ UNCHANGED <<nameVars, serverVars, hostVars>>

\* the model is queried with the messages the run began with
ModelCallsTool_stale_messages ==
    /\ pc = "think"
    /\ loop_continues
    /\ total < MaxDispatches
    /\ \E msg \in ModelResponses :
         /\ msg.tool_calls # <<>>
         /\ LET c == dispatched_call(msg)
                parsed == parse_arguments(c.arguments)
            IN  /\ parsed.ok
                /\ call' = [name |-> c.name, args |-> parsed.value,
                            tool_calls |-> msg.tool_calls]
    /\ queries' = queries + 1
    /\ sent' = Append(runBase, [role |-> "user", content |-> user_query])
    /\ dispatches' = dispatches + 1
    /\ total' = total + 1
    /\ pc' = "act"
    /\ UNCHANGED <<max_iterations, session, tool_defs, memory, iteration, out,
                   runBase, log, user_query, turns, query>>
    /\ UNCHANGED <<nameVars, serverVars, hostVars>>

\* the model is queried and asks for a tool whose arguments parse: the
\* first tool call of the response goes to call_tool
ModelCallsTool ==
    /\ pc = "think"
    /\ loop_continues
    /\ total < MaxDispatches
    /\ \E msg \in ModelResponses :
         /\ msg.tool_calls # <<>>
         /\ LET c == dispatched_call(msg)
                parsed == parse_arguments(c.arguments)
            IN  /\ parsed.ok
                /\ call' = [name |-> c.name, args |-> parsed.value,
                            tool_calls |-> msg.tool_calls]
    /\ queries' = queries + 1
    /\ sent' = memory
    /\ dispatches' = dispatches + 1
    /\ total' = total + 1
    /\ pc' = "act"
    /\ UNCHANGED <<max_iterations, session, tool_defs, memory, iteration, out,
                   runBase, log, user_query, turns, query>>
    /\ UNCHANGED <<nameVars, serverVars, hostVars>>

\* json.loads rejects the arguments and the memory is put back to what it was
\* when the run was entered
ModelBadArguments_rollback ==
    /\ pc = "think"
    /\ loop_continues
    /\ \E msg \in ModelResponses :
         /\ msg.tool_calls # <<>>
         /\ ~parse_arguments(dispatched_call(msg).arguments).ok
         /\ call' = [name |-> dispatched_call(msg).name, args |-> PyDict(<<>>),
                     tool_calls |-> msg.tool_calls]
    /\ queries' = queries + 1
    /\ sent' = memory
    /\ out' = [kind |-> "raised", text |-> "JSONDecodeError", tool |-> ""]
    /\ memory' = runBase
    /\ pc' = "input"
    /\ UNCHANGED <<max_iterations, session, tool_defs, iteration,
                   dispatches, runBase, log, user_query, turns, total, query>>
    /\ UNCHANGED <<nameVars, serverVars, hostVars>>

\* the model is queried and asks for a tool with arguments json.loads
\* rejects: the error leaves run_agent and chat_loop reports it (call keeps
\* the tool call that was being read; no args were bound)
ModelBadArguments ==
    /\ pc = "think"
    /\ loop_continues
    /\ \E msg \in ModelResponses :
         /\ msg.tool_calls # <<>>
         /\ ~parse_arguments(dispatched_call(msg).arguments).ok
         /\ call' = [name |-> dispatched_call(msg).name, args |-> PyDict(<<>>),
                     tool_calls |-> msg.tool_calls]
    /\ queries' = queries + 1
    /\ sent' = memory
    /\ out' = [kind |-> "raised", text |-> "JSONDecodeError", tool |-> ""]
    /\ pc' = "input"
    /\ UNCHANGED <<max_iterations, session, tool_defs, memory, iteration,
                   dispatches, runBase, log, user_query, turns, total, query>>
    /\ UNCHANGED <<nameVars, serverVars, hostVars>>

\* the model is queried and returns content: the final answer
ModelAnswers ==
    /\ pc = "think"
    /\ loop_continues
    /\ \E msg \in ModelResponses :
         /\ msg.tool_calls = <<>>
         /\ LET final_answer == IF msg.content.present THEN msg.content.text ELSE ""
            IN  /\ memory' = Append(memory, [role |-> "assistant",
                                             content |-> final_answer])
                /\ out' = [kind |-> "returned", text |-> final_answer, tool |-> ""]
    /\ queries' = queries + 1
    /\ sent' = memory
    /\ pc' = "input"
    /\ UNCHANGED <<max_iterations, session, tool_defs, iteration, call,
                   dispatches, runBase, log, user_query, turns, total, query>>
    /\ UNCHANGED <<nameVars, serverVars, hostVars>>

\* the for loop is over: the apology is returned
Exhausted ==
    /\ pc = "think"
    /\ ~loop_continues
    /\ out' = [kind |-> "returned", text |-> Apology, tool |-> ""]
    /\ pc' = "input"
    /\ UNCHANGED <<max_iterations, session, tool_defs, memory, iteration, call,
                   queries, dispatches, runBase, log, user_query, turns, total, query, sent>>
    /\ UNCHANGED <<nameVars, serverVars, hostVars>>

\* call_tool returns and an observation that is an error ends the run
ToolReturns_error_ends_run ==
    /\ pc = "act"
    /\ \E result \in CallResults(call.name) :
         /\ memory' = memory \o call_entries(call.name, call.args, result)
         /\ log' = Append(log, [name |-> call.name, args |-> call.args,
                                result |-> result])
         /\ pc' = IF result.isError THEN "input" ELSE "think"
         /\ out' = IF result.isError
                   THEN [kind |-> "raised", text |-> result.content, tool |-> call.name]
                   ELSE out
    /\ iteration' = iteration + 1
    /\ call' = NoPending
    /\ UNCHANGED <<max_iterations, session, tool_defs, queries, dispatches,
                   runBase, user_query, turns, total, query, sent>>
    /\ UNCHANGED <<nameVars, serverVars, hostVars>>

\* call_tool returns: the call and its observation are recorded and the
\* loop goes on
ToolReturns ==
    /\ pc = "act"
    /\ \E result \in CallResults(call.name) :
         /\ memory' = memory \o call_entries(call.name, call.args, result)
         /\ log' = Append(log, [name |-> call.name, args |-> call.args,
                                result |-> result])
    /\ iteration' = iteration + 1
    /\ call' = NoPending
    /\ pc' = "think"
    /\ UNCHANGED <<max_iterations, session, tool_defs, out, queries, dispatches,
                   runBase, user_query, turns, total, query, sent>>
    /\ UNCHANGED <<nameVars, serverVars, hostVars>>

\* call_tool raises and the memory is put back to what it was when the run
\* was entered
ToolRaises_rollback ==
    /\ pc = "act"
    /\ out' = [kind |-> "raised", text |-> "call_tool", tool |-> call.name]
    /\ memory' = runBase
    /\ call' = NoPending
    /\ pc' = "input"
    /\ UNCHANGED <<max_iterations, session, tool_defs, iteration,
                   queries, dispatches, runBase, log, user_query, turns, total, query, sent>>
    /\ UNCHANGED <<nameVars, serverVars, hostVars>>

\* call_tool raises and the exception is only printed: the loop goes on
ToolRaises_swallowed ==
    /\ pc = "act"
    /\ iteration' = iteration + 1
    /\ call' = NoPending
    /\ pc' = "think"
    /\ UNCHANGED <<max_iterations, session, tool_defs, memory, out,
                   queries, dispatches, runBase, log, user_query, turns, total, query, sent>>
    /\ UNCHANGED <<nameVars, serverVars, hostVars>>

\* call_tool raises and chat_loop does not catch it: the loop is left
ToolRaises_uncaught ==
    /\ pc = "act"
    /\ out' = [kind |-> "raised", text |-> "call_tool", tool |-> call.name]
    /\ call' = NoPending
    /\ pc' = "closed"
    /\ UNCHANGED <<max_iterations, session, tool_defs, memory, iteration,
                   queries, dispatches, runBase, log, user_query, turns, total, query, sent>>
    /\ UNCHANGED <<nameVars, serverVars, hostVars>>

\* call_tool raises: the traceback is printed and the exception raised
\* again; it leaves run_agent and chat_loop reports it
ToolRaises ==
    /\ pc = "act"
    /\ out' = [kind |-> "raised", text |-> "call_tool", tool |-> call.name]
    /\ call' = NoPending
    /\ pc' = "input"
    /\ UNCHANGED <<max_iterations, session, tool_defs, memory, iteration,
                   queries, dispatches, runBase, log, user_query, turns, total, query, sent>>
    /\ UNCHANGED <<nameVars, serverVars, hostVars>>

AgentNext ==
    \/ Connect
    \/ ConnectFails
    \/ Quit
    \/ StartRun
    \/ ModelCallsTool
    \/ ModelBadArguments
    \/ ModelAnswers
    \/ Exhausted
    \/ ToolReturns
    \/ ToolRaises

----------------------------------------------------------------------------
(* server.py and utils/auth.py: the tool host serving tool invocations.    *)
(* Every compiled tool is an "async def" whose body awaits nothing: the    *)
(* event loop of mcp.run() starts the body of an invocation when no other  *)
(* coroutine holds the loop, and the body (oauth.request, with the refresh *)
(* of an expired token and save_token inside it) runs to its return.       *)

MaxCalls == 3

\* the tool invocations the host is asked for
Tasks == 1..MaxCalls

HostInit ==
    /\ host = "starting"
    /\ task = [t \in Tasks |-> "none"]
    /\ running = 0
    /\ token \in {"none", "fresh", "expired"}
    /\ writers = 0

\* get_oauth_session finds no token: the user authorizes, fetch_token
\* returns the first token and save_token opens TOKEN_FILE
Authorize ==
    /\ host = "starting"
    /\ token = "none"
    /\ token' = "fresh"
    /\ writers' = writers + 1
    /\ host' = "saving"
    /\ UNCHANGED <<task, running>>
    /\ UNCHANGED <<nameVars, serverVars, agentVars>>

\* fetch_token raises: the import of server.py fails
AuthorizeFails ==
    /\ host = "starting"
    /\ token = "none"
    /\ host' = "failed"
    /\ UNCHANGED <<task, running, token, writers>>
    /\ UNCHANGED <<nameVars, serverVars, agentVars>>

\* save_token returns: the file is written and closed; the tools are
\* registered and mcp.run() serves
FirstTokenSaved ==
    /\ host = "saving"
    /\ writers' = writers - 1
    /\ host' = "serving"
    /\ UNCHANGED <<task, running, token>>
    /\ UNCHANGED <<nameVars, serverVars, agentVars>>

\* load_token found a token: nothing is written before mcp.run() serves
StartServing ==
    /\ host = "starting"
    /\ token # "none"
    /\ host' = "serving"
    /\ UNCHANGED <<task, running, token, writers>>
    /\ UNCHANGED <<nameVars, serverVars, agentVars>>

\* the expiry time of the token passes
Expire ==
    /\ host = "serving"
    /\ token = "fresh"
    /\ token' = "expired"
    /\ UNCHANGED <<host, task, running, writers>>
    /\ UNCHANGED <<nameVars, serverVars, agentVars>>

\* a call of a tool arrives, whatever the other invocations are doing
Arrive ==
    /\ host = "serving"
    /\ \E t \in Tasks :
         /\ task[t] = "none"
         /\ task' = [task EXCEPT ![t] = "queued"]
    /\ UNCHANGED <<host, running, token, writers>>
    /\ UNCHANGED <<nameVars, serverVars, agentVars>>

\* the body of an invocation is started on a thread of its own, whether or
\* not another body is running
Enter_on_its_own_thread ==
    /\ \E t \in Tasks :
         /\ task[t] = "queued"
         /\ task' = [task EXCEPT ![t] = "request"]
         /\ running' = t
    /\ UNCHANGED <<host, token, writers>>
    /\ UNCHANGED <<nameVars, serverVars, agentVars>>

\* the event loop, held by no coroutine, starts the body of an invocation,
\* which comes to resp = oauth.request(...)
Enter ==
    /\ running = 0
    /\ \E t \in Tasks :
         /\ task[t] = "queued"
         /\ task' = [task EXCEPT ![t] = "request"]
         /\ running' = t
    /\ UNCHANGED <<host, token, writers>>
    /\ UNCHANGED <<nameVars, serverVars, agentVars>>

\* oauth.request finds the token valid and sends the request
ValidToken ==
    /\ token = "fresh"
    /\ \E t \in Tasks :
         /\ task[t] = "request"
         /\ task' = [task EXCEPT ![t] = "send"]
    /\ UNCHANGED <<host, running, token, writers>>
    /\ UNCHANGED <<nameVars, serverVars, agentVars>>

\* oauth.request finds the token expired and asks auto_refresh_url for a
\* new one
ExpiredToken ==
    /\ token = "expired"
    /\ \E t \in Tasks :
         /\ task[t] = "request"
         /\ task' = [task EXCEPT ![t] = "refresh"]
    /\ UNCHANGED <<host, running, token, writers>>
    /\ UNCHANGED <<nameVars, serverVars, agentVars>>

\* the refresh returns a token: token_updater = save_token opens TOKEN_FILE
RefreshReturns ==
    /\ \E t \in Tasks :
         /\ task[t] = "refresh"
         /\ task' = [task EXCEPT ![t] = "write"]
    /\ token' = "fresh"
    /\ writers' = writers + 1
    /\ UNCHANGED <<host, running>>
    /\ UNCHANGED <<nameVars, serverVars, agentVars>>

\* the refresh raises: the except branch returns the error envelope
RefreshFails ==
    /\ \E t \in Tasks :
         /\ task[t] = "refresh"
         /\ task' = [task EXCEPT ![t] = "done"]
    /\ running' = 0
    /\ UNCHANGED <<host, token, writers>>
    /\ UNCHANGED <<nameVars, serverVars, agentVars>>

\* save_token returns: the file is written and closed, the request is sent
Written ==
    /\ \E t \in Tasks :
         /\ task[t] = "write"
         /\ task' = [task EXCEPT ![t] = "send"]
    /\ writers' = writers - 1
    /\ UNCHANGED <<host, running, token>>
    /\ UNCHANGED <<nameVars, serverVars, agentVars>>

\* the request returns or raises and the body returns its envelope: the
\* event loop is free again
Respond ==
    /\ \E t \in Tasks :
         /\ task[t] = "send"
         /\ task' = [task EXCEPT ![t] = "done"]
    /\ running' = 0
    /\ UNCHANGED <<host, token, writers>>
    /\ UNCHANGED <<nameVars, serverVars, agentVars>>

HostNext ==
    \/ Authorize
    \/ AuthorizeFails
    \/ FirstTokenSaved
    \/ StartServing
    \/ Expire
    \/ Arrive
    \/ Enter
    \/ ValidToken
    \/ ExpiredToken
    \/ RefreshReturns
    \/ RefreshFails
    \/ Written
    \/ Respond

\* the values the variables of a part keep while another part runs
NameIdle == rawIn = <<>> /\ sanOut = [done |-> FALSE, name |-> <<>>]

ServerIdle ==
    /\ doc = <<>> /\ idx = 0 /\ build = "off" /\ registry = <<>>
    /\ regLog = <<>> /\ last = NoCall

AgentIdle ==
    /\ max_iterations = 0 /\ session = FALSE /\ tool_defs = {} /\ memory = <<>>
    /\ pc = "off" /\ iteration = 0 /\ call = NoPending /\ out = NoOutcome
    /\ queries = 0 /\ dispatches = 0 /\ runBase = <<>> /\ log = <<>>
    /\ user_query = "" /\ turns = 0 /\ total = 0
    /\ query = <<>>
    /\ sent = <<>>

HostIdle ==
    /\ host = "off" /\ task = <<>> /\ running = 0 /\ token = "none" /\ writers = 0

----------------------------------------------------------------------------
(* The specification of sanitize_name as a function of its input *)

\* "get/track:id"
ExampleRawName == <<"g", "e", "t", "/", "t", "r", "a", "c", "k", ":", "i", "d">>

RawNames == SeqsUpTo(NameAlphabet, MaxNameLen) \cup {ExampleRawName}

NameInit ==
    /\ rawIn \in RawNames
    /\ sanOut = [done |-> FALSE, name |-> <<>>]
    /\ ServerIdle
    /\ AgentIdle
    /\ HostIdle

Sanitize ==
    /\ ~sanOut.done
    /\ sanOut' = [done |-> TRUE, name |-> sanitize_name(rawIn)]
    /\ UNCHANGED <<rawIn, serverVars, agentVars, hostVars>>

NameNext == Sanitize

SpecName == NameInit /\ [][NameNext]_vars

----------------------------------------------------------------------------
(* The specification of the server: the build, then calls of the tools *)

InitServer == ServerInit /\ NameIdle /\ AgentIdle /\ HostIdle

SpecServer == InitServer /\ [][ServerNext]_vars

----------------------------------------------------------------------------
(* The specification of the client: main, chat_loop and run_agent *)

Init == AgentInit /\ NameIdle /\ ServerIdle /\ HostIdle

Next == AgentNext

Spec == Init /\ [][Next]_vars

----------------------------------------------------------------------------
(* The specification of the tool host: startup, then tool invocations *)

InitHost == HostInit /\ NameIdle /\ ServerIdle /\ AgentIdle

SpecHost == InitHost /\ [][HostNext]_vars

----------------------------------------------------------------------------
(* Claims about sanitize_name, under SpecName *)

\* C10: for every raw operation name, sanitize_name returns the name with
\* each character outside [0-9A-Za-z_] replaced by exactly one "_" (length
\* preserved, the other characters unchanged), prefixed with "op_" if and
\* only if the replaced result starts with a digit; "get/track:id" gives
\* "get_track_id".
C10_SanitizeName ==
    sanOut.done =>
        LET r == rawIn
            s == sanOut.name
            pre == Len(s) = Len(r) + 3
            core == IF pre THEN SubSeq(s, 4, Len(s)) ELSE s
        IN  /\ Len(core) = Len(r)
            /\ pre => SubSeq(s, 1, 3) = <<"o", "p", "_">>
            /\ \A i \in 1..Len(r) :
                 core[i] = IF r[i] \in WordChars THEN r[i] ELSE "_"
            /\ pre <=> (core # <<>> /\ core[1] \in Digits)
            /\ r = ExampleRawName => s = <<"g", "e", "t", "_", "t", "r", "a", "c", "k", "_", "i", "d">>

\* a name whose first character is a digit and that holds a "/"
C10_Witness ==
    /\ sanOut.done
    /\ rawIn = <<"7", "/", "a">>
    /\ sanOut.name = <<"o", "p", "_", "7", "_", "a">>

----------------------------------------------------------------------------
(* Claims about the compiled tools, under SpecServer *)

\* the last call got as far as sending its request
Sent == last.called /\ last.call.exc # "NameError"

\* the compiled tool the last call was made on
LastFn == registry[last.name].fn

\* the positions of the "{" of a template
Braces(tpl) == {i \in 1..Len(tpl) : tpl[i] = "{"}

\* the names between the braces of a template
Placeholders(tpl) ==
    { Join(SubSeq(tpl, i + 1,
                  (CHOOSE j \in i..Len(tpl) :
                      tpl[j] = "}" /\ \A h \in i..(j - 1) : tpl[h] # "}") - 1)) :
      i \in Braces(tpl) }

\* a template with the value of args put in the place of each {name}
RECURSIVE Substituted(_, _)
Substituted(tpl, args) ==
    IF Braces(tpl) = {} THEN tpl
    ELSE LET a == CHOOSE i \in Braces(tpl) : \A h \in Braces(tpl) : i <= h
             b == CHOOSE j \in a..Len(tpl) :
                      tpl[j] = "}" /\ \A h \in a..(j - 1) : tpl[h] # "}"
         IN  SubSeq(tpl, 1, a - 1) \o args[Join(SubSeq(tpl, a + 1, b - 1))]
                 \o Substituted(SubSeq(tpl, b + 1, Len(tpl)), args)

\* C4: invoking any compiled tool function raises no exception to its
\* caller: for every compiled operation (also one whose path template has
\* {name} placeholders) and every outcome of the request, the call returns
\* an {isError, content} envelope.
C4_NoExceptionToCaller ==
    last.called => ~last.call.raised

\* C5: when the requester signals a non-2xx response whose error carries
\* the response, the tool returns isError = true with content exactly
\* [{type: "text", text: "HTTP {status}: {body}"}]; only a failure that
\* carries no response falls back to the failure's string form.
C5_HttpErrorText ==
    (Sent /\ ~last.call.raised /\ ~last.outcome.raises
          /\ raise_for_status_raises(last.outcome.resp)) =>
        last.call.result =
            Envelope(TRUE, ErrorContent(
                "HTTP " \o ToString(last.outcome.resp.status) \o ": "
                    \o last.outcome.resp.text))

Is2xx(resp) == resp.status >= 200 /\ resp.status < 300

MarkerCase(resp) == resp.status = 201 \/ resp.status = 204 \/ resp.text = ""

\* C6 as stated: for every 2xx response the tool returns isError = false,
\* with content ["Sucessfully executed"] when the status is 201 or 204 or
\* the body is empty, and the parsed JSON body for any other 2xx response.
C6_Every2xxSucceeds ==
    (Sent /\ ~last.outcome.raises /\ Is2xx(last.outcome.resp)) =>
        /\ ~last.call.raised
        /\ last.call.result.isError = FALSE
        /\ MarkerCase(last.outcome.resp) =>
               last.call.result.content = SuccessContent
        /\ (~MarkerCase(last.outcome.resp) /\ resp_json(last.outcome.resp.text).ok) =>
               last.call.result.content = resp_json(last.outcome.resp.text).value

\* C6 as amended: a 2xx response with status 201 or 204 or an empty body
\* gives isError = false and ["Sucessfully executed"]; any other 2xx
\* response whose body decodes as JSON gives isError = false and the
\* decoded body; any other 2xx response whose body does not decode gives
\* isError = true with the decoder's message as its text. None of them
\* raises.
C6_2xxClassification ==
    (Sent /\ ~last.outcome.raises /\ Is2xx(last.outcome.resp)) =>
        LET resp == last.outcome.resp
            parsed == resp_json(resp.text)
        IN  /\ ~last.call.raised
            /\ MarkerCase(resp) =>
                   last.call.result = Envelope(FALSE, SuccessContent)
            /\ (~MarkerCase(resp) /\ parsed.ok) =>
                   last.call.result = Envelope(FALSE, parsed.value)
            /\ (~MarkerCase(resp) /\ ~parsed.ok) =>
                   last.call.result = Envelope(TRUE, ErrorContent(JSONDecodeError.msg))

\* a 200 response with a JSON body, returned decoded
C6_Witness ==
    /\ Sent
    /\ ~last.outcome.raises
    /\ last.outcome.resp.status = 200
    /\ last.outcome.resp.text = "{\"a\": \"b\"}"
    /\ last.call.result = Envelope(FALSE, PyDict(<< <<"a", PyStr("b")>> >>))

\* C8: tool identity is unique after the build: two operations that
\* produce the same sanitized name surface a build-time error, so that no
\* name is registered for two operations.
C8_UniqueToolIdentity ==
    build # "failed" =>
        \A i, j \in DOMAIN regLog : regLog[i] = regLog[j] => i = j

\* C9 as stated: the URL requested is the base URL followed by the literal
\* path template; the values of the path-parameter arguments are not put
\* into it.
C9_LiteralUrl ==
    (last.called /\ Placeholders(LastFn.path) \subseteq Range(LastFn.path_params)) =>
        last.call.request.url = base_url \o LastFn.path

\* C9 as amended: for an operation whose {name} placeholders are all
\* declared path parameters, the URL requested is the base URL followed by
\* the path template with the value passed for each path parameter in the
\* place of its {name} placeholder.
C9_SubstitutedUrl ==
    (last.called /\ Placeholders(LastFn.path) \subseteq Range(LastFn.path_params)) =>
        /\ Sent
        /\ last.call.request.url = base_url \o Substituted(LastFn.path, last.args)

\* GET /t/{i} called with i = "4" requests https://api/t/4
C9_Witness ==
    /\ Sent
    /\ LastFn.path = <<"/", "t", "/", "{", "i", "}">>
    /\ last.args["i"] = <<"4">>
    /\ last.call.request.url = <<"h", "t", "t", "p", "s", ":", "/", "/", "a", "p", "i", "/", "t", "/", "4">>

----------------------------------------------------------------------------
(* Claims about the names of the tools, under SpecServer *)

\* the entry of the document a registered tool was made from
EntryOf(n) == doc[registry[n].src]

\* the registered tools whose operation has no operationId
Synthesized == {n \in DOMAIN registry : EntryOf(n).operationId = <<>>}

\* C11 as stated: for an operation with no operationId the raw name, before
\* sanitization, is the lowercased method, "_", and the path with its
\* separators collapsed and stripped at both ends: GET /v1/tracks/{id} has
\* the raw name "get_v1_tracks__id_".
C11_RawNameLoweredCollapsed ==
    \A n \in Synthesized :
        LET e == EntryOf(n)
            raw == registry[n].raw
        IN  /\ SubSeq(raw, 1, Len(e.key)) = str_lower(e.key)
            /\ (str_lower(e.key) = <<"g", "e", "t">> /\ e.path = TracksPath) =>
                   raw = <<"g", "e", "t", "_", "v", "1", "_", "t", "r", "a", "c", "k", "s", "_", "_", "i", "d", "_">>

\* C11 as amended: for an operation with no operationId the raw name is
\* the method key as the document writes it (not lowercased), "_", and the
\* path with the "/" at its ends stripped and every other "/" replaced by
\* one "_"; braces and all other characters are kept. For the key get and
\* the path /v1/tracks/{id} the raw name is "get_v1_tracks_{id}", and it is
\* sanitize_name that makes the tool name "get_v1_tracks__id_" of it.
C11_RawNameAsWritten ==
    \A n \in Synthesized :
        LET e == EntryOf(n)
            raw == registry[n].raw
            p == str_strip(e.path, {"/"})
            k == Len(e.key)
        IN  /\ Len(raw) = k + 1 + Len(p)
            /\ SubSeq(raw, 1, k) = e.key
            /\ raw[k + 1] = "_"
            /\ \A j \in 1..Len(p) :
                   raw[k + 1 + j] = IF p[j] = "/" THEN "_" ELSE p[j]
            /\ n = sanitize_name(raw)
            /\ (e.key = <<"g", "e", "t">> /\ e.path = TracksPath) =>
                   /\ raw = <<"g", "e", "t", "_", "v", "1", "_", "t", "r", "a", "c", "k", "s", "_", "{", "i", "d", "}">>
                   /\ n = <<"g", "e", "t", "_", "v", "1", "_", "t", "r", "a", "c", "k", "s", "_", "_", "i", "d", "_">>

\* get /v1/tracks/{id} is registered, and so is an operation whose key is
\* written in capitals
C11_Witness ==
    /\ <<"g", "e", "t", "_", "v", "1", "_", "t", "r", "a", "c", "k", "s", "_", "_", "i", "d", "_">> \in DOMAIN registry
    /\ registry[<<"g", "e", "t", "_", "v", "1", "_", "t", "r", "a", "c", "k", "s", "_", "_", "i", "d", "_">>].raw = <<"g", "e", "t", "_", "v", "1", "_", "t", "r", "a", "c", "k", "s", "_", "{", "i", "d", "}">>
    /\ \E n \in Synthesized : EntryOf(n).key = <<"D", "E", "L", "E", "T", "E">>

\* C14: if the document fails to load or validate, or a parameter $ref of
\* any operation cannot be resolved, startup is fatal and no tool at all has
\* been registered when the failure is raised (the operations that precede
\* the one with the unresolvable $ref are not registered either), and the
\* server never starts serving.
C14_NothingRegisteredOnFailure ==
    build = "failed" =>
        /\ registry = <<>>
        /\ regLog = <<>>
        /\ ~last.called

----------------------------------------------------------------------------
(* Claims about the agent loop, under Spec *)

\* connect has returned and chat_loop was entered
Connected == pc \in {"input", "think", "act", "closed"}

\* a run_agent invocation is over (it returned or raised)
RunOver == pc \in {"input", "closed"} /\ out.kind # "none"

IsPrefix(a, b) == Len(a) <= Len(b) /\ SubSeq(b, 1, Len(a)) = a

\* the entries a run has appended after its user entry
RunTail == SubSeq(memory, Len(runBase) + 2, Len(memory))

\* the (assistant, function) pairs of the calls of log, in call order
PairsOf(calls) ==
    [i \in 1..(2 * Len(calls)) |->
        IF i % 2 = 1
        THEN [role |-> "assistant", name |-> calls[(i + 1) \div 2].name,
              content |-> json_dumps(calls[(i + 1) \div 2].args)]
        ELSE [role |-> "function", name |-> calls[i \div 2].name,
              content |-> calls[i \div 2].result.content]]

\* C1: with max_iterations = N, if the model returns a tool call on every
\* iteration and no tool call raises, run_agent returns the apology after
\* exactly N model queries and N tool dispatches, and the memory keeps the
\* user entry and all N (assistant, function) pairs, with no rollback and no
\* final assistant entry.
C1_ExhaustedRun ==
    /\ dispatches <= queries /\ queries <= max_iterations
    /\ (RunOver /\ out.kind = "returned" /\ queries = dispatches) =>
          /\ out.text = Apology
          /\ queries = max_iterations
          /\ dispatches = max_iterations
          /\ Len(log) = max_iterations
          /\ memory = runBase \o <<[role |-> "user", content |-> user_query]>>
                              \o PairsOf(log)

\* a client with max_iterations = 3 has given up after 3 queries and 3 calls
C1_Witness ==
    /\ RunOver
    /\ max_iterations = 3
    /\ out = [kind |-> "returned", text |-> Apology, tool |-> ""]
    /\ queries = 3
    /\ dispatches = 3
    /\ Len(memory) = Len(runBase) + 7

\* C2: when the model asks for a tool on k consecutive iterations
\* (0 <= k < max_iterations) and then returns plain content, run_agent
\* returns that content and appends exactly: one user entry, then k pairs
\* (assistant entry with name and serialized arguments, function entry with
\* the tool result content) in call order, then one final assistant entry
\* holding the returned text.
C2_AnsweredRun ==
    (RunOver /\ out.kind = "returned" /\ queries = dispatches + 1) =>
        /\ dispatches < max_iterations
        /\ Len(log) = dispatches
        /\ memory = runBase \o <<[role |-> "user", content |-> user_query]>>
                            \o PairsOf(log)
                            \o <<[role |-> "assistant", content |-> out.text]>>

\* "what's playing": one call of get_current_playback with no arguments,
\* then the answer: one assistant/function/assistant triple after the user turn
C2_Witness ==
    /\ RunOver
    /\ out = [kind |-> "returned", text |-> "Currently playing X.", tool |-> ""]
    /\ RunTail =
         << [role |-> "assistant", name |-> "get_current_playback", content |-> "{}"],
            [role |-> "function", name |-> "get_current_playback",
             content |-> "track X"],
            [role |-> "assistant", content |-> "Currently playing X."] >>

\* C3: in every state reachable after connect, over any sequence of
\* run_agent invocations (answered, exhausted or raising), the memory is
\* append-only (each step leaves the previous memory as an unchanged prefix)
\* and its first entry is the system prompt written at connect time.
C3_AppendOnlyMemory ==
    /\ [][IsPrefix(memory, memory')]_vars
    /\ [](Connected =>
            /\ memory # <<>>
            /\ memory[1] = [role |-> "system", content |-> SystemPrompt])

\* the second run of a session has raised after one of its calls returned
C3_Witness ==
    /\ pc = "input"
    /\ turns = 2
    /\ out.kind = "raised"
    /\ memory[1].role = "system"
    /\ Len(memory) >= Len(runBase) + 3
    /\ Len(runBase) >= 2

NamesInMemory ==
    {memory[i].name : i \in {j \in DOMAIN memory : "name" \in DOMAIN memory[j]}}

\* C12: in every iteration of run_agent at most one tool call is
\* dispatched: of a response that carries several tool calls only the first
\* is dispatched and recorded in the memory; the others are neither
\* dispatched nor recorded, in that iteration or in a later one.
C12_OnlyFirstToolCall ==
    /\ dispatches <= queries
    /\ pc = "think" => dispatches = iteration
    /\ pc = "act" =>
          /\ dispatches = iteration + 1
          /\ call.name = call.tool_calls[1].name
          /\ call.args = parse_arguments(call.tool_calls[1].arguments).value
    /\ ExtraCall.name \notin NamesInMemory \cup {call.name}
    /\ \A i \in DOMAIN log : log[i].name # ExtraCall.name

\* the response of the second iteration carried two tool calls and the
\* first of them is in flight
C12_Witness ==
    /\ pc = "act"
    /\ iteration = 1
    /\ call.tool_calls = <<ToolCallOf("get_current_playback", Arguments("{\"q\":\"x\"}")),
                           ExtraCall>>
    /\ call.name = "get_current_playback"
    /\ Len(memory) = Len(runBase) + 3

\* C13: chat_loop exits only when the stripped input is empty or is "quit"
\* in any mix of cases; for every other input it runs one run_agent turn and
\* then reads the next input, also when the turn raised an exception: the
\* error is reported and the loop is not left.
C13_ChatLoopExits ==
    /\ [][/\ pc' = "closed" =>
              /\ pc = "input"
              /\ query' = <<>> \/ str_lower(query') = <<"q", "u", "i", "t">>
          /\ (pc = "input"
                /\ ~(query' = <<>> \/ str_lower(query') = <<"q", "u", "i", "t">>)) =>
              /\ pc' = "think"
              /\ turns' = turns + 1
              /\ user_query' = Join(query')
              /\ memory' = Append(memory, [role |-> "user", content |-> Join(query')])
          /\ pc \in {"think", "act"} =>
              /\ pc' \in {"think", "act", "input"}
              /\ turns' = turns
              /\ out'.kind = "raised" => pc' = "input"
              /\ pc' = "input" <=> out'.kind # "none"]_vars
    /\ [](pc \in {"think", "act"} => (iteration <= max_iterations /\ ENABLED Next))

\* the second turn of the session raised; the loop then read "Quit " and
\* exited
C13_Witness ==
    /\ pc = "closed"
    /\ turns = 2
    /\ out.kind = "raised"
    /\ query = <<"Q", "u", "i", "t">>

\* the arguments, as the model wrote them, of the tool call read last
RawArguments == call.tool_calls[1].arguments

\* C15: absent tool-call arguments (None or the empty string) are taken for
\* the empty argument set and the tool is dispatched with {}; arguments that
\* are not valid JSON are not tolerated: the parse failure leaves run_agent,
\* no tool is dispatched and no assistant or function entry is appended for
\* that call. Nothing but invalid JSON fails to parse.
C15_ArgumentsParsing ==
    /\ pc = "act" =>
          /\ RawArguments \in {NoArguments, Arguments(""), Arguments("{\"q\":\"x\"}")}
          /\ RawArguments \in {NoArguments, Arguments("")} => call.args = PyDict(<<>>)
          /\ RawArguments = Arguments("{\"q\":\"x\"}") =>
                 call.args = PyDict(<< <<"q", PyStr("x")>> >>)
    /\ (RunOver /\ out.kind = "raised" /\ out.text = "JSONDecodeError") =>
          /\ RawArguments = Arguments("{bad")
          /\ dispatches = queries - 1
          /\ Len(log) = dispatches
          /\ memory = runBase \o <<[role |-> "user", content |-> user_query]>>
                              \o PairsOf(log)

\* a call without arguments was dispatched with {} and recorded; the next
\* response carried the arguments "{bad" and the run raised, leaving no entry
\* for that call
C15_Witness ==
    /\ RunOver
    /\ out = [kind |-> "raised", text |-> "JSONDecodeError", tool |-> ""]
    /\ RawArguments = Arguments("{bad")
    /\ dispatches = 1
    /\ queries = 2
    /\ RunTail =
         << [role |-> "assistant", name |-> "get_current_playback", content |-> "{}"],
            [role |-> "function", name |-> "get_current_playback",
             content |-> "track X"] >>

\* the memory of the run up to and with the observation of its i-th call
UpToObservation(i) == SubSeq(memory, 1, Len(runBase) + 1 + 2 * i)

\* C16: a tool invocation that fails at the HTTP or network level never
\* ends the agent loop: its isError = true envelope is appended to the
\* memory as a function-role observation exactly like a success, and, unless
\* the iteration budget is used up, the next step is another model query
\* whose messages include that observation.
C16_ErrorObservationContinues ==
    /\ pc = "act" => sent = memory
    /\ \A i \in DOMAIN log :
          log[i].result.isError =>
              /\ memory[Len(runBase) + 2 * i] =
                     [role |-> "assistant", name |-> log[i].name,
                      content |-> json_dumps(log[i].args)]
              /\ memory[Len(runBase) + 1 + 2 * i] =
                     [role |-> "function", name |-> log[i].name,
                      content |-> log[i].result.content]
              /\ queries >= i
              /\ queries = i =>
                     /\ i = Len(log)
                     /\ \/ pc = "think"
                        \/ /\ RunOver
                           /\ out = [kind |-> "returned", text |-> Apology, tool |-> ""]
                           /\ i = max_iterations
              /\ queries > i => IsPrefix(UpToObservation(i), sent)

\* the first call of the run came back as an error envelope; the model was
\* queried again with the observation as the last message, and asked for
\* another call
C16_Witness ==
    /\ pc = "act"
    /\ queries = 2
    /\ log[1].result = [isError |-> TRUE, content |-> "HTTP 404: not found"]
    /\ sent[Len(sent)] = [role |-> "function", name |-> "get_current_playback",
                          content |-> "HTTP 404: not found"]

\* C17: within run_agent the steps are strictly sequential, with no
\* overlap between iterations: a tool is dispatched only after the model
\* query of the same iteration has returned; the entries of a call are
\* appended only after its result has returned; the model query of
\* iteration i+1 is sent the full memory, with the observation appended in
\* iteration i; and in every invocation the tool dispatches are never more
\* than the model queries, which are never more than max_iterations.
C17_StrictlySequential ==
    /\ dispatches <= queries
    /\ queries <= max_iterations
    /\ pc = "think" =>
          /\ queries = iteration
          /\ dispatches = iteration
          /\ Len(log) = iteration
          /\ Len(memory) = Len(runBase) + 1 + 2 * iteration
    /\ pc = "act" =>
          /\ queries = iteration + 1
          /\ dispatches = iteration + 1
          /\ Len(log) = iteration
          /\ Len(memory) = Len(runBase) + 1 + 2 * iteration
    /\ queries >= 1 =>
          /\ sent = UpToObservation(queries - 1)
          /\ sent = runBase \o <<[role |-> "user", content |-> user_query]>>
                            \o PairsOf(SubSeq(log, 1, queries - 1))

\* the third iteration of a run: the model was sent the memory with both
\* observations and its call is in flight, its entries not yet appended
C17_Witness ==
    /\ pc = "act"
    /\ iteration = 2
    /\ queries = 3
    /\ dispatches = 3
    /\ Len(log) = 2
    /\ sent = memory
    /\ Len(memory) = Len(runBase) + 5

\* C19: when run_agent escalates an exception (a tool call that raises,
\* or tool arguments that do not parse) in iteration k, the memory is not
\* rolled back: it keeps the user entry of that turn and the k-1 completed
\* (assistant, function) pairs and gets no final assistant entry; the next
\* run_agent invocation of the session appends its user entry after them
\* and sends all of them to the model (with k = 1 two user entries are
\* adjacent, with no assistant answer between them).
C19_NoRollbackOnEscalation ==
    /\ []((RunOver /\ out.kind = "raised") =>
             /\ queries >= 1
             /\ Len(log) = queries - 1
             /\ memory = runBase \o <<[role |-> "user", content |-> user_query]>>
                                 \o PairsOf(log))
    /\ [][(pc = "input" /\ out.kind = "raised" /\ pc' = "think") =>
             /\ runBase' = memory
             /\ memory' = Append(memory, [role |-> "user", content |-> user_query'])]_vars
    /\ [](queries >= 1 =>
             IsPrefix(Append(runBase, [role |-> "user", content |-> user_query]), sent))

\* the first run of a client with max_iterations = 3 made one call and then
\* raised; the second run has sent the model the system prompt, the first
\* user entry, the pair of that call and, right after it, its own user entry
C19_Witness ==
    /\ turns = 2
    /\ max_iterations = 3
    /\ pc = "act"
    /\ queries = 1
    /\ Len(runBase) = 4
    /\ runBase[2].role = "user"
    /\ runBase[3].role = "assistant"
    /\ runBase[4].role = "function"
    /\ sent = Append(runBase, [role |-> "user", content |-> user_query])

\* C20: in every reachable state of the memory, every function-role entry
\* comes right after an assistant-role entry that carries the same tool
\* name, and every assistant-role entry that carries a tool name is followed
\* at once by a function-role entry with that name: the two entries of a
\* call are always appended together, also when a later step of the run
\* raises or the budget is exhausted.
C20_PairedEntries ==
    \A i \in DOMAIN memory :
        /\ memory[i].role = "function" =>
              /\ i > 1
              /\ memory[i - 1].role = "assistant"
              /\ "name" \in DOMAIN memory[i - 1]
              /\ memory[i - 1].name = memory[i].name
        /\ (memory[i].role = "assistant" /\ "name" \in DOMAIN memory[i]) =>
              /\ i < Len(memory)
              /\ memory[i + 1].role = "function"
              /\ memory[i + 1].name = memory[i].name

\* two calls of different tools were recorded and the third call raised:
\* the memory of the run ends with the two pairs
C20_Witness ==
    /\ RunOver
    /\ out.kind = "raised"
    /\ out.text = "call_tool"
    /\ Len(log) = 2
    /\ log[1].name = "no_such_tool"
    /\ log[2].name = "get_current_playback"
    /\ Len(RunTail) = 4
    /\ RunTail[1].role = "assistant" /\ RunTail[1].name = "no_such_tool"
    /\ RunTail[2].role = "function" /\ RunTail[2].name = "no_such_tool"
    /\ RunTail[3].role = "assistant" /\ RunTail[3].name = "get_current_playback"
    /\ RunTail[4].role = "function" /\ RunTail[4].name = "get_current_playback"

----------------------------------------------------------------------------
(* Claims about the token file, under SpecHost *)

\* the invocations whose token refresh, or its save_token, is in flight
Refreshing == {t \in Tasks : task[t] \in {"refresh", "write"}}

\* C18: token refresh is serialized: across any interleaving of the tool
\* invocations the host serves, at most one token refresh (with its write
\* of the token file through save_token) is in flight at a time, so two
\* writes of the token file never overlap.
C18_SerializedRefresh ==
    /\ Cardinality(Refreshing) <= 1
    /\ writers <= 1
    /\ writers = 1 <=> (host = "saving" \/ \E t \in Tasks : task[t] = "write")
    /\ host = "saving" => \A t \in Tasks : task[t] = "none"

\* save_token is writing the token one invocation has refreshed while
\* another invocation has arrived and waits, and a third one is over
C18_Witness ==
    \E t, u, v \in Tasks :
        /\ task[t] = "write"
        /\ task[u] = "queued"
        /\ task[v] = "done"
        /\ writers = 1

====
